---------------------------- MODULE Spec2Model ----------------------------
(***************************************************************************)
(* A model of the request-dispatch engine of stress-test.js: the shared   *)
(* CircuitBreaker, sendRequest's protocol failover, the workers of        *)
(* main.runWorker and of rapidResetAttack, detectProtocols, the protocol  *)
(* override, the SIGINT handler and the stats interval of main.           *)
(*                                                                         *)
(* JavaScript runs each callback to its next await without interruption,  *)
(* so every action below is the code between two awaits of one worker (or *)
(* of main), and the workers interleave only at the awaits.  Time is a    *)
(* clock `now` that ticks in units of one second (1000 ms).  Strings that *)
(* the code parses or truncates are sequences of one-character strings.   *)
(***************************************************************************)
EXTENDS Integers, Sequences, FiniteSets, TLC

(***************************************************************************)
(* Bounds of the model.                                                    *)
(***************************************************************************)
\* new CircuitBreaker(threshold, timeout, halfOpenRequests): the arguments.
threshold == 2
timeout == 1
halfOpenRequests == 2
\* config.conc is drawn from 1..MaxConc, the run lasts durationMs seconds.
MaxConc == 2
durationMs == 2
\* The clock is followed up to MaxTime (and to the last pending timer); at
\* most MaxCalls sendRequest calls (rapidResetAttack rounds) are started.
MaxTime == 3
MaxCalls == 4
\* In a run that does not end, requests fail while failCount is below MaxFails.
MaxFails == 4

\* setTimeout(resolve, 2000) of runWorker's catch block, in seconds.
Cooldown == 2

\* runWorker, line 529: the adaptive delay, in seconds
SlowDown == 1
\* rapidResetAttack, line 242: the streams of a batch
Batch == 50
\* The status codes of a response: one that passes, one that blocks
StatusCodes == {200, 429}

Workers == 1 .. MaxConc

Max(a, b) == IF a >= b THEN a ELSE b
Min(a, b) == IF a <= b THEN a ELSE b

(***************************************************************************)
(* Strings.                                                                *)
(***************************************************************************)
CircuitOpenMessage ==
    <<"C", "i", "r", "c", "u", "i", "t", " ", "O", "P", "E", "N", " ", "-",
      " ", "W", "a", "i", "t", "i", "n", "g", " ", "f", "o", "r", " ", "r",
      "e", "c", "o", "n", "n", "e", "c", "t">>
UNKNOWN == <<"U", "N", "K", "N", "O", "W", "N">>

\* Error objects: one with a code, one with neither code nor message, one
\* with only a message, and the breaker's own (line 68), whose message is
\* longer than 20 characters.  A request attempt ends with one of
\* NetworkErrors.
Errs ==
    [ reset   |-> [code |-> <<"E", "C", "O", "N", "N", "R", "E", "S", "E", "T">>,
                   message |-> <<"r", "e", "a", "d", " ", "E", "C", "O", "N",
                                 "N", "R", "E", "S", "E", "T">>],
      headers |-> [code |-> <<>>,
                   message |-> <<"H", "e", "a", "d", "e", "r", "s", " ", "T",
                                 "i", "m", "e", "o", "u", "t", " ", "E", "r",
                                 "r", "o", "r", " ", "o", "c", "c", "u", "r",
                                 "r", "e", "d">>],
      blank   |-> [code |-> <<>>, message |-> <<>>],
      circuit |-> [code |-> <<>>, message |-> CircuitOpenMessage] ]

NetworkErrors == {"reset", "blank"}

\* String.prototype.substring(0, n)
Substring0(s, n) == SubSeq(s, 1, Min(Len(s), n))

\* err.code || err.message?.substring(0, 20) || "UNKNOWN"
SubstringKey(e) ==
    IF e.code # <<>> THEN e.code
    ELSE IF e.message # <<>> THEN e.message
    ELSE UNKNOWN
ErrorKey(e) ==
    IF e.code # <<>> THEN e.code
    ELSE IF Substring0(e.message, 20) # <<>> THEN Substring0(e.message, 20)
    ELSE UNKNOWN

\* obj[k] || 0   and   obj[k] = (obj[k] || 0) + 1
Get(f, k) == IF k \in DOMAIN f THEN f[k] ELSE 0
Bump(f, k) == [x \in (DOMAIN f) \cup {k} |-> Get(f, x) + (IF x = k THEN 1 ELSE 0)]
Empty == [x \in {} |-> 0]

(***************************************************************************)
(* The protocol override of main: split(','), trim, protocolMap, filter.   *)
(***************************************************************************)
RECURSIVE Split(_, _)
Split(s, sep) ==
    IF \E i \in 1 .. Len(s) : s[i] = sep
    THEN LET i == CHOOSE j \in 1 .. Len(s) :
                      s[j] = sep /\ \A k \in 1 .. (j - 1) : s[k] # sep
         IN  <<SubSeq(s, 1, i - 1)>> \o Split(SubSeq(s, i + 1, Len(s)), sep)
    ELSE <<s>>

RECURSIVE Trim(_)
Trim(s) ==
    IF s = <<>> THEN s
    ELSE IF Head(s) = " " THEN Trim(Tail(s))
    ELSE IF s[Len(s)] = " " THEN Trim(SubSeq(s, 1, Len(s) - 1))
    ELSE s

\* protocolMap[p]; "" stands for undefined
protocolMap(p) ==
    IF p = <<"1", ".", "1">> THEN "h1.1"
    ELSE IF p = <<"2">> THEN "h2"
    ELSE IF p = <<"3">> THEN "h3"
    ELSE ""

RECURSIVE FilterBoolean(_)
FilterBoolean(ps) ==
    IF ps = <<>> THEN <<>>
    ELSE (IF Head(ps) # "" THEN <<Head(ps)>> ELSE <<>>) \o FilterBoolean(Tail(ps))

ParseOverride(s) ==
    LET toks == Split(s, ",")
    IN  FilterBoolean([i \in 1 .. Len(toks) |-> protocolMap(Trim(toks[i]))])

\* (no default list)
DefaultKeepsEmpty(ps) == ps
\* if (protocols.length === 0) protocols = ['h1.1']
DefaultIfEmpty(ps) == IF Len(ps) = 0 THEN <<"h1.1">> ELSE ps

\* The values of config.protocol: <<>> is null (no -p flag).  A run of one
\* worker takes any of OverrideInputs, a run of several workers SharedInputs,
\* and the pair of workers of PairSpec takes PairInputs.
SharedInputs == { <<"1", ".", "1">> }
PairInputs == { <<"2", ",", " ", "1", ".", "1">> }
OverrideInputs ==
    { <<>>,
      <<"x">>,
      <<"2", ",", " ", "1", ".", "1">>,
      <<"2", ",", "1", ".", "1", ",", "2">>,
      <<"1", ".", "1", ",", "x", ",", "3">> }

\* What detectProtocols returns: Array.from(protocols), in insertion order.
DetectedOk(altSvcH3) ==
    (IF altSvcH3 THEN <<"h3">> ELSE <<>>) \o <<"h2", "h1.1">>
DetectedFail == <<"h1.1">>

(***************************************************************************)
(* CircuitBreaker.  A breaker is a record of the object's fields.          *)
(***************************************************************************)
NewBreaker ==
    [failCount |-> 0, successCount |-> 0, state |-> "CLOSED", nextAttempt |-> 0]

\* execute, lines 66-69: the call is refused without invoking fn
\* (a breaker that refuses every call while it is OPEN)
RejectsWhileOpen(b, t) == b.state = "OPEN"
Rejects(b, t) == b.state = "OPEN" /\ t < b.nextAttempt

\* execute, lines 66-72, when the call is not refused
AdmitStaysOpen(b) == b
Admit(b) ==
    IF b.state = "OPEN"
    THEN [b EXCEPT !.state = "HALF_OPEN", !.successCount = 0]
    ELSE b

\* (a reset that keeps the counters)
resetKeepsCounts(b) == [b EXCEPT !.state = "CLOSED"]
reset(b) == [b EXCEPT !.failCount = 0, !.successCount = 0, !.state = "CLOSED"]

\* execute, lines 77-84: after fn has returned
OnSuccessLateClose(b) ==
    IF b.state = "HALF_OPEN"
    THEN LET c == [b EXCEPT !.successCount = @ + 1]
         IN  IF c.successCount > halfOpenRequests THEN reset(c) ELSE c
    ELSE [b EXCEPT !.failCount = Max(0, @ - 1)]
OnSuccessNoFloor(b) ==
    IF b.state = "HALF_OPEN"
    THEN LET c == [b EXCEPT !.successCount = @ + 1]
         IN  IF c.successCount >= halfOpenRequests THEN reset(c) ELSE c
    ELSE [b EXCEPT !.failCount = @ - 1]
OnSuccessClosesOpen(b) ==
    IF b.state = "HALF_OPEN"
    THEN LET c == [b EXCEPT !.successCount = @ + 1]
         IN  IF c.successCount >= halfOpenRequests THEN reset(c) ELSE c
    ELSE IF b.state = "OPEN" THEN reset(b)
    ELSE [b EXCEPT !.failCount = Max(0, @ - 1)]
OnSuccess(b) ==
    IF b.state = "HALF_OPEN"
    THEN LET c == [b EXCEPT !.successCount = @ + 1]
         IN  IF c.successCount >= halfOpenRequests THEN reset(c) ELSE c
    ELSE [b EXCEPT !.failCount = Max(0, @ - 1)]

\* execute, lines 88-96: after fn has thrown
OnFailureLateOpen(b, t) ==
    LET c == [b EXCEPT !.failCount = @ + 1]
    IN  IF c.state = "HALF_OPEN" \/ c.failCount > threshold
        THEN [c EXCEPT !.state = "OPEN", !.nextAttempt = t + timeout]
        ELSE c
OnFailureStaleWindow(b, t) ==
    LET c == [b EXCEPT !.failCount = @ + 1]
    IN  IF c.state = "HALF_OPEN"
        THEN [c EXCEPT !.state = "OPEN"]
        ELSE IF c.failCount >= threshold
        THEN [c EXCEPT !.state = "OPEN", !.nextAttempt = t + timeout]
        ELSE c
OnFailure(b, t) ==
    LET c == [b EXCEPT !.failCount = @ + 1]
    IN  IF c.state = "HALF_OPEN"
        THEN [c EXCEPT !.state = "OPEN", !.nextAttempt = t + timeout]
        ELSE IF c.failCount >= threshold
        THEN [c EXCEPT !.state = "OPEN", !.nextAttempt = t + timeout]
        ELSE c

\* sendRequest, line 214: proto === protocols[protocols.length - 1]
IsLastAlways(ps, i) == TRUE
IsLastProto(ps, i) == ps[i] = ps[Len(ps)]


(***************************************************************************)
(* The state.                                                              *)
(***************************************************************************)
VARIABLES
    configProtocol,  \* config.protocol, the -p argument (<<>>: null)
    conc,            \* config.conc
    adaptiveDelay,   \* config.adaptiveDelay
    attack,          \* config.attack: "none" or "rapid-reset"
    endless,         \* config.duration does not end while the run is followed
    protocols,       \* main's protocols
    mainPc,          \* where main is: start, probing, waiting, reported
    isRunning,       \* main's isRunning
    startTime,       \* main's startTime
    now,             \* Date.now()
    timer,           \* statsInterval: unset, active or cleared
    breaker,         \* the CircuitBreaker all workers share
    stats,           \* main's stats: success, failed, protocols, errors,
                     \* attackSent, attackErrors
    pc,              \* where each worker is
    idx,             \* the position in protocols of the worker's for loop
    err,             \* the error the worker's attempt ended with ("none")
    status,          \* the statusCode of the worker's response (0: none)
    wake,            \* when the worker's setTimeout fires
    openClients,     \* Clients created and not closed
    calls,           \* sendRequest calls (rapidResetAttack rounds) started
    trace,           \* per worker: the outcomes of the attempts of its call
    failedOver,      \* the protocols an attempt over which has failed
    streak,          \* failures in a row since the breaker was CLOSED with
                     \* failCount 0 (-1: not such a row)
    lastChange,      \* the last change of breaker.state, <<from, to>>
    periodResets,    \* executions of lines 70-71 since the breaker opened
    periodAdmits,    \* operations invoked in the current HALF_OPEN period
    periodSuccesses, \* operations that returned in the current HALF_OPEN period
    stale,           \* per worker: the breaker has opened while the request
                     \* of the worker's operation was out
    probed,          \* how detectProtocols ended: "none", "ok" or "fail"
    returned,        \* sendRequest calls that returned to runWorker
    clears,          \* calls of clearInterval(statsInterval)
    lateLine         \* a status line was printed after the run was over

vars ==
    <<configProtocol, conc, adaptiveDelay, attack, endless, protocols, mainPc,
      isRunning, startTime, now, timer, breaker, stats, pc, idx, err, status,
      wake, openClients, calls, trace, failedOver, streak, lastChange,
      periodResets, periodAdmits, periodSuccesses, stale, probed, returned,
      clears, lateLine>>

config == <<configProtocol, conc, adaptiveDelay, attack, endless>>
observed ==
    <<streak, lastChange, periodResets, periodAdmits, periodSuccesses, stale>>
history == <<failedOver, observed>>
reporter == <<timer, clears, lateLine>>

NewStats ==
    [success |-> 0, failed |-> 0, protocols |-> Empty, errors |-> Empty,
     attackSent |-> 0, attackErrors |-> 0]

\* The state before main has run
Fresh ==
    /\ protocols = <<>>
    /\ mainPc = "start"
    /\ isRunning = FALSE
    /\ startTime = 0
    /\ now = 0
    /\ timer = "unset"
    /\ breaker = NewBreaker
    /\ stats = NewStats
    /\ pc = [w \in Workers |-> "off"]
    /\ idx = [w \in Workers |-> 0]
    /\ err = [w \in Workers |-> "none"]
    /\ status = [w \in Workers |-> 0]
    /\ wake = [w \in Workers |-> 0]
    /\ openClients = 0
    /\ calls = 0
    /\ trace = [w \in Workers |-> <<>>]
    /\ failedOver = {}
    /\ streak = 0
    /\ lastChange = <<>>
    /\ periodResets = 0
    /\ periodAdmits = 0
    /\ periodSuccesses = 0
    /\ stale = [w \in Workers |-> FALSE]
    /\ probed = "none"
    /\ returned = 0
    /\ clears = 0
    /\ lateLine = FALSE

\* The command lines that are run: several workers share the single-protocol
\* list; one worker takes every -p argument, and detection; --adaptive-delay
\* is one of flags.
Start(flags) ==
    /\ conc \in 1 .. MaxConc
    /\ attack \in {"none", "rapid-reset"}
    /\ configProtocol \in
           (IF conc = 1 /\ attack = "none"
            THEN OverrideInputs \cup SharedInputs ELSE SharedInputs)
    /\ adaptiveDelay \in (IF attack = "none" THEN flags ELSE {FALSE})
    /\ endless = FALSE
    /\ Fresh

\* Two workers share a list of two protocols; one worker runs detection, and
\* the stream-flood mode.
PairStart ==
    /\ \/ conc = 2 /\ attack = "none" /\ configProtocol \in PairInputs
       \/ conc = 1 /\ attack = "none" /\ configProtocol = <<>>
       \/ conc = 1 /\ attack = "rapid-reset" /\ configProtocol \in SharedInputs
    /\ adaptiveDelay = FALSE
    /\ endless = FALSE
    /\ Fresh

Init == Start({FALSE})

\* The same command lines with a --duration that does not end while the run
\* is followed
EndlessStart ==
    /\ conc \in 1 .. MaxConc
    /\ attack \in {"none", "rapid-reset"}
    /\ configProtocol \in
           (IF conc = 1 /\ attack = "none"
            THEN OverrideInputs \cup SharedInputs ELSE SharedInputs)
    /\ adaptiveDelay = FALSE
    /\ endless = TRUE
    /\ Fresh

\* A counter of the run (the stats, the calls, the Clients left open) is
\* followed in a run that ends, and left at old in a run that does not
Follow(old, new) == IF endless THEN old ELSE new

(***************************************************************************)
(* main.                                                                   *)
(***************************************************************************)
\* Lines 475-566: the default list, the stats, the breaker, the SIGINT
\* handler, the stats interval and the workers.  Lines 545-547 and 558-560
\* run each worker up to its first await: the condition of line 523 (228)
\* holds, for durationMs is positive; the new breaker is CLOSED, so that
\* execute invokes the request over protocols[1] (lines 66-75, 164-195); in
\* the stream-flood mode the worker connects (lines 231-240).  clients is the
\* number of Clients the probe has left open.
StartRun(ps, outcome, clients) ==
    /\ protocols' = DefaultIfEmpty(ps)
    /\ probed' = outcome
    /\ stats' = NewStats
    /\ breaker' = Admit(NewBreaker)
    /\ startTime' = now
    /\ isRunning' = TRUE
    /\ timer' = "active"
    /\ pc' = [w \in Workers |->
                CASE w > conc -> "off"
                  [] attack = "none" -> "request"
                  [] OTHER -> "connecting"]
    /\ idx' = [w \in Workers |-> IF w <= conc /\ attack = "none" THEN 1 ELSE 0]
    /\ openClients' = clients + (IF attack = "none" THEN conc ELSE 0)
    /\ calls' = conc
    /\ mainPc' = "waiting"

\* Lines 466-469 (a forced list), or lines 471 and 137-149 (the probe is sent)
MainStart ==
    /\ mainPc = "start"
    /\ IF configProtocol # <<>>
       THEN StartRun(ParseOverride(configProtocol), "none", openClients)
       ELSE /\ mainPc' = "probing"
            /\ openClients' = openClients + 1
            /\ UNCHANGED <<protocols, stats, breaker, startTime, isRunning, pc,
                           idx, calls, timer, probed>>
    /\ UNCHANGED <<config, now, err, status, wake, trace, history, returned,
                   clears, lateLine>>

\* detectProtocols, lines 151-155 and 160: the probe is answered
ProbeOk(altSvcH3) ==
    /\ mainPc = "probing"
    /\ StartRun(DetectedOk(altSvcH3), "ok", openClients - 1)
    /\ UNCHANGED <<config, now, err, status, wake, trace, history, returned,
                   clears, lateLine>>

\* detectProtocols, lines 156-160: the probe fails or times out
ProbeFail ==
    /\ mainPc = "probing"
    /\ StartRun(DetectedFail, "fail", openClients)
    /\ UNCHANGED <<config, now, err, status, wake, trace, history, returned,
                   clears, lateLine>>

\* The SIGINT handler, lines 501-504
Sigint ==
    /\ mainPc = "waiting"
    /\ isRunning
    /\ isRunning' = FALSE
    /\ UNCHANGED <<config, protocols, mainPc, startTime, now, reporter, breaker,
                   stats, pc, idx, err, status, wake, openClients, calls,
                   trace, history, probed, returned>>

\* The callback of the stats interval, lines 507-515: it clears the interval
\* once the run is over, and else prints the status line (displayStats only
\* reads).
StatsInterval ==
    /\ timer = "active"
    /\ IF ~isRunning
       THEN /\ timer' = "cleared"
            /\ clears' = clears + 1
            /\ UNCHANGED lateLine
       ELSE /\ lateLine' = (lateLine \/ ~isRunning \/ mainPc = "reported")
            /\ UNCHANGED <<timer, clears>>
    /\ UNCHANGED <<config, protocols, mainPc, isRunning, startTime, now,
                   breaker, stats, pc, idx, err, status, wake, openClients,
                   calls, trace, history, probed, returned>>

\* Lines 549-573 and 562-573: the race of the workers and the duration timer
\* is decided, the interval is cleared and the report is printed
MainFinish ==
    /\ mainPc = "waiting"
    /\ \/ \A w \in Workers : pc[w] \in {"off", "done"}
       \/ now - startTime >= durationMs
    /\ isRunning' = FALSE
    /\ timer' = "cleared"
    /\ clears' = clears + 1
    /\ mainPc' = "reported"
    /\ UNCHANGED <<config, protocols, startTime, now, breaker, stats, pc, idx,
                   err, status, wake, openClients, calls, trace, history,
                   probed, returned, lateLine>>

\* A timer of a worker that has not fired yet
Pending(w) == pc[w] \in {"backoff", "delay"} /\ now < wake[w]

\* The clock, read from line 496 on, advances; it is followed up to MaxTime
\* and to the last pending timer.  In a run that does not end the clock is
\* kept relative to the present: a second that passes brings nextAttempt and
\* the timers that lie ahead one second closer.
Tick ==
    /\ mainPc \in {"waiting", "reported"}
    /\ IF endless
       THEN /\ breaker.nextAttempt > now \/ \E w \in Workers : wake[w] > now
            /\ breaker' = [breaker EXCEPT
                               !.nextAttempt = IF @ > now THEN @ - 1 ELSE @]
            /\ wake' = [w \in Workers |->
                           IF wake[w] > now THEN wake[w] - 1 ELSE wake[w]]
            /\ UNCHANGED now
       ELSE /\ now < MaxTime \/ \E w \in Workers : Pending(w)
            /\ now' = now + 1
            /\ UNCHANGED <<breaker, wake>>
    /\ UNCHANGED <<config, protocols, mainPc, isRunning, startTime, reporter,
                   stats, pc, idx, err, status, openClients,
                   calls, trace, history, probed, returned>>

(***************************************************************************)
(* The workers: runWorker, sendRequest and CircuitBreaker.execute.         *)
(***************************************************************************)
\* What main owns and a worker only reads
main ==
    <<config, protocols, mainPc, isRunning, startTime, now, reporter, probed>>

\* Where a worker is while the operation execute has invoked for it has not
\* completed: the request is out, or fn has returned and line 77 is next
InFlight == {"request", "fnReturned"}

\* What a step of execute did to the breaker, for the properties below: ev is
\* "invoke" (lines 66-75, fn is called), "ok" (lines 77-86) or "fail" (lines
\* 88-98).
Observe(ev) ==
    /\ lastChange' = IF breaker'.state # breaker.state
                     THEN <<breaker.state, breaker'.state>>
                     ELSE lastChange
    /\ streak' = CASE ev = "fail" ->
                        IF streak \in 0 .. (threshold - 1) THEN streak + 1 ELSE -1
                   [] ev = "ok" ->
                        IF breaker'.state = "CLOSED" /\ breaker'.failCount = 0
                        THEN 0 ELSE -1
                   [] OTHER -> streak
    /\ periodResets' = CASE breaker'.state = "CLOSED" -> 0
                         [] breaker.state # "OPEN" /\ breaker'.state = "OPEN" -> 0
                         [] ev = "invoke" /\ breaker.state = "OPEN" -> periodResets + 1
                         [] OTHER -> periodResets
    /\ periodAdmits' = CASE breaker'.state # "HALF_OPEN" -> 0
                         [] ev = "invoke" /\ breaker.state = "OPEN" -> 1
                         [] ev = "invoke" -> periodAdmits + 1
                         [] OTHER -> periodAdmits
    /\ periodSuccesses' = CASE breaker'.state # "HALF_OPEN" -> 0
                            [] ev = "invoke" /\ breaker.state = "OPEN" -> 0
                            [] ev = "ok" -> periodSuccesses + 1
                            [] OTHER -> periodSuccesses
    /\ stale' = [v \in Workers |->
                    CASE pc'[v] \notin InFlight -> FALSE
                      [] pc[v] \notin InFlight -> FALSE
                      [] /\ breaker.state # "OPEN" /\ breaker'.state = "OPEN"
                         /\ pc[v] = "request" -> TRUE
                      [] OTHER -> stale[v]]

\* sendRequest, lines 164-195, with execute, lines 66-75: the attempt over
\* protocols[i] starts; it is refused by the breaker, or its request is sent.
BeginAttempt(w, i) ==
    /\ idx' = [idx EXCEPT ![w] = i]
    /\ IF Rejects(breaker, now)
       THEN /\ pc' = [pc EXCEPT ![w] = "execThrew"]
            /\ err' = [err EXCEPT ![w] = "circuit"]
            /\ trace' = [trace EXCEPT ![w] = Append(@, "open")]
            /\ UNCHANGED <<breaker, openClients, observed>>
       ELSE /\ breaker' = Admit(breaker)
            /\ openClients' = Follow(openClients, openClients + 1)
            /\ pc' = [pc EXCEPT ![w] = "request"]
            /\ Observe("invoke")
            /\ UNCHANGED <<err, trace>>

\* (a loop that never reads isRunning or the clock)
WorkerLoopUnconditional(w) ==
    /\ pc[w] = "loop"
    /\ calls < MaxCalls
    /\ calls' = calls + 1
    /\ BeginAttempt(w, 1)
    /\ UNCHANGED <<main, status, returned, stats, wake, failedOver>>

\* runWorker, line 523 and the call of line 525
WorkerLoop(w) ==
    /\ pc[w] = "loop"
    /\ IF isRunning /\ now - startTime < durationMs
       THEN /\ calls < MaxCalls
            /\ calls' = Follow(calls, calls + 1)
            /\ BeginAttempt(w, 1)
       ELSE /\ pc' = [pc EXCEPT ![w] = "done"]
            /\ UNCHANGED <<breaker, idx, err, openClients, calls, trace,
                           observed>>
    /\ UNCHANGED <<main, status, returned, stats,
                   wake, failedOver>>

\* (a response with a blocking status code is thrown as an error)
AttemptOkThrowsOnBlocking(w) ==
    /\ pc[w] = "request"
    /\ \/ /\ openClients' = openClients - 1
          /\ stats' = [stats EXCEPT !.success = @ + 1,
                                    !.protocols = Bump(@, protocols[idx[w]])]
          /\ status' = [status EXCEPT ![w] = 200]
          /\ pc' = [pc EXCEPT ![w] = "fnReturned"]
          /\ UNCHANGED <<breaker, err, trace, observed>>
       \/ /\ err' = [err EXCEPT ![w] = "blank"]
          /\ breaker' = OnFailure(breaker, now)
          /\ pc' = [pc EXCEPT ![w] = "execThrew"]
          /\ trace' = [trace EXCEPT ![w] = Append(@, "fail")]
          /\ Observe("fail")
          /\ UNCHANGED <<openClients, stats, status>>
    /\ UNCHANGED <<main, returned, idx, wake, calls, failedOver>>

\* sendRequest, lines 185-211: the response arrives, the body is drained, the
\* client is closed and the stats are updated; fn returns
AttemptOk(w) ==
    /\ pc[w] = "request"
    /\ openClients' = Follow(openClients, openClients - 1)
    /\ stats' = Follow(stats,
                       [stats EXCEPT !.success = @ + 1,
                                     !.protocols = Bump(@, protocols[idx[w]])])
    /\ \E code \in StatusCodes : status' = [status EXCEPT ![w] = code]
    /\ pc' = [pc EXCEPT ![w] = "fnReturned"]
    /\ UNCHANGED <<main, returned, breaker, idx, err, wake, calls, trace,
                   history>>

\* execute, lines 75-86: fn has returned
ExecSuccess(w) ==
    /\ pc[w] = "fnReturned"
    /\ breaker' = OnSuccess(breaker)
    /\ pc' = [pc EXCEPT ![w] = "execReturned"]
    /\ trace' = [trace EXCEPT ![w] = Append(@, "ok")]
    /\ Observe("ok")
    /\ UNCHANGED <<main, status, returned, stats,
                   idx, err, wake, openClients, calls, failedOver>>

\* sendRequest, lines 185-197, and execute, lines 87-99: client.request or the
\* body rejects with e (an error, or the 8 s abort signal), so fn throws with
\* its client still open, and execute's catch block runs
AttemptFail(w, e) ==
    /\ pc[w] = "request"
    /\ endless => breaker.failCount < MaxFails
    /\ err' = [err EXCEPT ![w] = e]
    /\ breaker' = OnFailure(breaker, now)
    /\ pc' = [pc EXCEPT ![w] = "execThrew"]
    /\ trace' = [trace EXCEPT ![w] = Append(@, "fail")]
    /\ failedOver' = failedOver \cup {protocols[idx[w]]}
    /\ Observe("fail")
    /\ UNCHANGED <<main, status, returned, stats,
                   idx, wake, openClients, calls>>

\* sendRequest, line 166 (return) and runWorker, lines 525-533: with
\* --adaptive-delay the worker waits 1 s when the breaker is OPEN; it then
\* yields (setImmediate) and is back at line 523
SendReturn(w) ==
    /\ pc[w] = "execReturned"
    /\ IF adaptiveDelay /\ breaker.state = "OPEN"
       THEN /\ pc' = [pc EXCEPT ![w] = "delay"]
            /\ wake' = [wake EXCEPT ![w] = now + SlowDown]
       ELSE /\ pc' = [pc EXCEPT ![w] = "loop"]
            /\ UNCHANGED wake
    /\ idx' = [idx EXCEPT ![w] = 0]
    /\ status' = [status EXCEPT ![w] = 0]
    /\ trace' = [trace EXCEPT ![w] = <<>>]
    /\ returned' = Follow(returned, returned + 1)
    /\ UNCHANGED <<main, breaker, stats, err, openClients, calls, history>>

\* (a catch block that throws after the last protocol without counting)
SendCatchUncounted(w) ==
    /\ pc[w] = "execThrew"
    /\ IF IsLastProto(protocols, idx[w])
       THEN /\ pc' = [pc EXCEPT ![w] = "sendThrew"]
            /\ UNCHANGED <<breaker, idx, err, openClients, trace, observed>>
       ELSE BeginAttempt(w, idx[w] + 1)
    /\ UNCHANGED <<main, status, returned, stats, wake, calls, failedOver>>

\* (a catch block that counts a failure for every protocol)
SendCatchCountsEach(w) ==
    /\ pc[w] = "execThrew"
    /\ stats' = [stats EXCEPT !.failed = @ + 1,
                              !.errors = Bump(@, ErrorKey(Errs[err[w]]))]
    /\ IF IsLastProto(protocols, idx[w])
       THEN /\ pc' = [pc EXCEPT ![w] = "sendThrew"]
            /\ UNCHANGED <<breaker, idx, err, openClients, trace, observed>>
       ELSE BeginAttempt(w, idx[w] + 1)
    /\ UNCHANGED <<main, status, returned, wake, calls, failedOver>>

\* sendRequest, lines 213-220: the catch block
SendCatch(w) ==
    /\ pc[w] = "execThrew"
    /\ IF IsLastProto(protocols, idx[w])
       THEN /\ stats' = Follow(stats,
                               [stats EXCEPT
                                   !.failed = @ + 1,
                                   !.errors = Bump(@, ErrorKey(Errs[err[w]]))])
            /\ pc' = [pc EXCEPT ![w] = "sendThrew"]
            /\ UNCHANGED <<breaker, idx, err, openClients, trace, observed>>
       ELSE /\ BeginAttempt(w, idx[w] + 1)
            /\ UNCHANGED stats
    /\ UNCHANGED <<main, status, returned, wake,
                   calls, failedOver>>

\* (a catch block that retries at once whatever the breaker's state)
WorkerCatchNoCooldown(w) ==
    /\ pc[w] = "sendThrew"
    /\ pc' = [pc EXCEPT ![w] = "loop"]
    /\ idx' = [idx EXCEPT ![w] = 0]
    /\ err' = [err EXCEPT ![w] = "none"]
    /\ trace' = [trace EXCEPT ![w] = <<>>]
    /\ UNCHANGED <<main, status, returned, wake, breaker, stats, openClients,
                   calls, history>>

\* runWorker, lines 535-540: the catch block
WorkerCatch(w) ==
    /\ pc[w] = "sendThrew"
    /\ IF breaker.state = "OPEN"
       THEN /\ pc' = [pc EXCEPT ![w] = "backoff"]
            /\ wake' = [wake EXCEPT ![w] = now + Cooldown]
       ELSE /\ pc' = [pc EXCEPT ![w] = "loop"]
            /\ UNCHANGED wake
    /\ idx' = [idx EXCEPT ![w] = 0]
    /\ err' = [err EXCEPT ![w] = "none"]
    /\ trace' = [trace EXCEPT ![w] = <<>>]
    /\ UNCHANGED <<main, status, returned,
                   breaker, stats, openClients, calls, history>>

\* runWorker, lines 529 and 538: the timer of the delay or of the cooldown
\* fires
BackoffDone(w) ==
    /\ pc[w] \in {"backoff", "delay"}
    /\ now >= wake[w]
    /\ pc' = [pc EXCEPT ![w] = "loop"]
    /\ wake' = [wake EXCEPT ![w] = 0]
    /\ UNCHANGED <<main, status, returned,
                   breaker, stats, idx, err, openClients, calls, trace,
                   history>>
(***************************************************************************)
(* The workers of the stream-flood mode: rapidResetAttack.                 *)
(***************************************************************************)
\* Lines 228-234, after the finally block of lines 271-275 has destroyed the
\* session: the next round connects, or the duration is over
NextRound(w) ==
    IF now - startTime < durationMs
    THEN /\ calls < MaxCalls
         /\ calls' = Follow(calls, calls + 1)
         /\ pc' = [pc EXCEPT ![w] = "connecting"]
    ELSE /\ pc' = [pc EXCEPT ![w] = "done"]
         /\ UNCHANGED calls

\* Lines 236-266: the session is connected; the batch of streams is sent and
\* the worker pauses for 100 ms
ConnectOk(w) ==
    /\ pc[w] = "connecting"
    /\ stats' = Follow(stats, [stats EXCEPT !.attackSent = @ + Batch])
    /\ pc' = [pc EXCEPT ![w] = "pausing"]
    /\ UNCHANGED <<main, status, returned, breaker, idx, err, wake,
                   openClients, calls, trace, history>>

\* Lines 236-240 and 268-275: the connection fails or times out
ConnectFail(w) ==
    /\ pc[w] = "connecting"
    /\ stats' = Follow(stats, [stats EXCEPT !.attackErrors = @ + 1])
    /\ NextRound(w)
    /\ UNCHANGED <<main, status, returned, breaker, idx, err, wake,
                   openClients, trace, history>>

\* Lines 266 and 271-275: the pause is over
PauseDone(w) ==
    /\ pc[w] = "pausing"
    /\ NextRound(w)
    /\ UNCHANGED <<main, status, returned, breaker, stats, idx, err, wake,
                   openClients, trace, history>>

\* The errors the requests of a run fail with: a run of one worker meets
\* each of NetworkErrors, a run of several workers one of them
FailuresMet == IF conc = 1 THEN NetworkErrors ELSE {"blank"}

Next ==
    \/ MainStart
    \/ \E a \in BOOLEAN : ProbeOk(a)
    \/ ProbeFail
    \/ Sigint
    \/ MainFinish
    \/ Tick
    \/ \E w \in Workers : WorkerLoop(w)
    \/ \E w \in Workers : AttemptOk(w)
    \/ \E w \in Workers, e \in FailuresMet : AttemptFail(w, e)
    \/ \E w \in Workers : ExecSuccess(w)
    \/ \E w \in Workers : SendReturn(w)
    \/ \E w \in Workers : SendCatch(w)
    \/ \E w \in Workers : WorkerCatch(w)
    \/ \E w \in Workers : BackoffDone(w)
    \/ \E w \in Workers : ConnectOk(w)
    \/ \E w \in Workers : ConnectFail(w)
    \/ \E w \in Workers : PauseDone(w)

Spec == Init /\ [][Next]_vars

\* The steps of worker w
WorkerStep(w) ==
    \/ WorkerLoop(w)
    \/ AttemptOk(w)
    \/ \E e \in FailuresMet : AttemptFail(w, e)
    \/ ExecSuccess(w)
    \/ SendReturn(w)
    \/ SendCatch(w)
    \/ WorkerCatch(w)
    \/ BackoffDone(w)
    \/ ConnectOk(w)
    \/ ConnectFail(w)
    \/ PauseDone(w)

\* The event loop runs every callback that is ready: main and each worker go
\* on, the clock advances and timers fire; a request, a connection and the
\* probe are answered, fail or time out (lines 142, 179-181 and 239).  An
\* interrupt need not come.
Fairness ==
    /\ WF_vars(MainStart)
    /\ WF_vars(ProbeFail \/ \E a \in BOOLEAN : ProbeOk(a))
    /\ WF_vars(MainFinish)
    /\ WF_vars(Tick)
    /\ \A w \in Workers : WF_vars(WorkerStep(w))

FairSpec == Init /\ [][Next]_vars /\ Fairness

\* The runs of two workers over two protocols
PairSpec == PairStart /\ [][Next]_vars

\* The runs with --adaptive-delay
AdaptiveSpec == Start({TRUE}) /\ [][Next]_vars

\* The runs with the callback of the stats interval, which touches nothing the
\* workers read
ReporterSpec == Init /\ [][Next \/ StatsInterval]_vars

\* The runs that do not end, under the same scheduling as FairSpec
EndlessSpec == EndlessStart /\ [][Next]_vars /\ Fairness

(***************************************************************************)
(* What a step did, read off the workers' positions.                       *)
(***************************************************************************)
\* worker w called breaker.execute in this step
Started(w) == idx'[w] # idx[w] /\ idx'[w] # 0
\* ... and execute invoked the wrapped operation
Invoked(w) == Started(w) /\ pc'[w] = "request"
\* ... and execute threw the circuit-open error without invoking it
Refused(w) ==
    /\ Started(w)
    /\ pc'[w] = "execThrew"
    /\ err'[w] = "circuit"
    /\ openClients' = openClients
\* the wrapped operation of w threw, and execute's catch block ran
Failed(w) == pc[w] = "request" /\ pc'[w] = "execThrew"
\* the wrapped operation of w had returned, and execute's lines 77-86 ran
Succeeded(w) == pc[w] = "fnReturned" /\ pc'[w] = "execReturned"

(***************************************************************************)
(* The claims.                                                             *)
(***************************************************************************)
\* C1: from CLOSED with failCount 0, the failure that makes `threshold`
\* failures in a row (no success between them) leaves the breaker OPEN with
\* nextAttempt = now + timeout; and while the breaker is OPEN and the clock is
\* before nextAttempt, every step leaves it OPEN and every execute() call
\* started is refused with the circuit-open error, no operation invoked,
\* whatever else completes in the window.
C1_OpensAtThresholdAndStaysOpen ==
    [][ /\ \A w \in Workers :
              (Failed(w) /\ streak' = threshold) =>
                  /\ breaker'.state = "OPEN"
                  /\ breaker'.nextAttempt = now + timeout
        /\ (breaker.state = "OPEN" /\ now < breaker.nextAttempt) =>
              /\ breaker'.state = "OPEN"
              /\ \A w \in Workers : Started(w) => Refused(w)
      ]_vars

\* C1 witness: the breaker has just opened after `threshold` failures in a
\* row, the window is running and a call started in it has been refused.
C1_Witness ==
    /\ streak = threshold
    /\ breaker.state = "OPEN"
    /\ now < breaker.nextAttempt
    /\ \E w \in Workers : pc[w] = "execThrew" /\ err[w] = "circuit"

\* C2: a call of execute() in state OPEN at a time >= nextAttempt sets the
\* state to HALF_OPEN and successCount to 0 and invokes the operation; a
\* success in HALF_OPEN closes the breaker, with failCount = 0 and
\* successCount = 0, exactly when it is the halfOpenRequests-th success of the
\* HALF_OPEN period, and leaves it HALF_OPEN otherwise.
C2_HalfOpenThenClosed ==
    [][ /\ \A w \in Workers :
              (Started(w) /\ breaker.state = "OPEN" /\ now >= breaker.nextAttempt) =>
                  /\ Invoked(w)
                  /\ breaker'.state = "HALF_OPEN"
                  /\ breaker'.successCount = 0
        /\ \A w \in Workers :
              (Succeeded(w) /\ breaker.state = "HALF_OPEN") =>
                  IF periodSuccesses + 1 = halfOpenRequests
                  THEN /\ breaker'.state = "CLOSED"
                       /\ breaker'.failCount = 0
                       /\ breaker'.successCount = 0
                  ELSE /\ breaker'.state = "HALF_OPEN"
                       /\ periodSuccesses + 1 < halfOpenRequests
        /\ (breaker.state = "HALF_OPEN" /\ breaker'.state = "CLOSED") =>
              /\ periodSuccesses + 1 = halfOpenRequests
              /\ \E w \in Workers : Succeeded(w)
      ]_vars

\* C2 witness: the breaker has opened, gone HALF_OPEN after the window and
\* been closed again by halfOpenRequests successes.
C2_Witness ==
    /\ lastChange = <<"HALF_OPEN", "CLOSED">>
    /\ breaker.state = "CLOSED"
    /\ breaker.failCount = 0
    /\ breaker.successCount = 0
    /\ stats.success >= halfOpenRequests

\* C3: when the wrapped operation fails while the state is HALF_OPEN, that
\* step leaves the state OPEN, whatever the counters are, and sets nextAttempt
\* to the current time plus the open duration.
C3_HalfOpenFailureReopens ==
    [][ \A w \in Workers :
            (Failed(w) /\ breaker.state = "HALF_OPEN") =>
                /\ breaker'.state = "OPEN"
                /\ breaker'.nextAttempt = now + timeout
      ]_vars

\* C3 witness: a failure in HALF_OPEN, after a success there, has reopened
\* the breaker, and the new window is running (the earlier one had elapsed).
C3_Witness ==
    /\ lastChange = <<"HALF_OPEN", "OPEN">>
    /\ breaker.state = "OPEN"
    /\ breaker.successCount >= 1
    /\ now < breaker.nextAttempt
    /\ now >= timeout

\* C4: a success in state CLOSED finds failCount = N with 0 <= N < threshold,
\* leaves failCount = max(0, N - 1) and the state CLOSED; and failCount >= 0
\* in every reachable state.
C4_ClosedSuccessDecrements ==
    /\ [](breaker.failCount >= 0)
    /\ [][ \A w \in Workers :
               (Succeeded(w) /\ breaker.state = "CLOSED") =>
                   /\ breaker.failCount \in 0 .. (threshold - 1)
                   /\ breaker'.failCount =
                          (IF breaker.failCount = 0 THEN 0 ELSE breaker.failCount - 1)
                   /\ breaker'.state = "CLOSED"
         ]_vars

\* C4 witness: a call whose first attempt failed and whose second succeeded
\* has brought failCount from 1 back to 0 in state CLOSED; an earlier success
\* had found failCount = 0.
C4_Witness ==
    \E w \in Workers :
        /\ pc[w] = "execReturned"
        /\ trace[w] = <<"fail", "ok">>
        /\ breaker.state = "CLOSED"
        /\ breaker.failCount = 0
        /\ stats.success >= 2

\* C5: with the workers interleaving at every await, lines 70-71 (the
\* OPEN->HALF_OPEN transition and the reset of successCount) run exactly once
\* per OPEN period: the breaker leaves OPEN only to HALF_OPEN, in a step of one
\* worker's call that sets successCount to 0, and a call entering while the
\* state is HALF_OPEN changes nothing of the breaker.
C5_OneHalfOpenTransition ==
    /\ [](periodResets <= 1)
    /\ []((breaker.state = "HALF_OPEN") => (periodResets = 1))
    /\ [][ /\ (breaker.state = "OPEN" /\ breaker'.state # "OPEN") =>
                 /\ breaker'.state = "HALF_OPEN"
                 /\ breaker'.successCount = 0
                 /\ Cardinality({w \in Workers : Invoked(w)}) = 1
           /\ \A w \in Workers :
                 (Invoked(w) /\ breaker.state = "HALF_OPEN") => breaker' = breaker
         ]_vars

\* C5 witness: two workers have both entered execute() after the open window
\* elapsed; the transition ran once.
C5_Witness ==
    /\ breaker.state = "HALF_OPEN"
    /\ periodResets = 1
    /\ periodAdmits = 2
    /\ \A w \in {1, 2} : pc[w] = "request"

\* C6: against a target whose every attempt fails (no attempt has succeeded),
\* at most one wrapped operation is invoked per HALF_OPEN period: one probe,
\* then the breaker is OPEN again.
C6_OneProbePerHalfOpen ==
    (stats.success = 0 /\ breaker.state = "HALF_OPEN") => periodAdmits <= 1

\* C7: one caller, protocol list [A, B] with A # B, every attempt over A has
\* failed and every attempt over B has succeeded, threshold > 1.  Then no
\* run-level failure is recorded and no error reaches the caller, the breaker
\* stays CLOSED holding the one failure of A while B is in flight and none
\* once B has returned, B is attempted only after A has failed, and each
\* returned call is B's: stats.success and stats.protocols count B alone.
C7_Failover ==
    ( /\ conc = 1
      /\ Len(protocols) = 2
      /\ protocols[1] # protocols[2]
      /\ threshold > 1
      /\ protocols[1] \notin DOMAIN stats.protocols
      /\ protocols[2] \notin failedOver )
    =>
    ( /\ stats.failed = 0
      /\ stats.errors = Empty
      /\ breaker.state = "CLOSED"
      /\ stats.success = Get(stats.protocols, protocols[2])
      /\ \A w \in Workers :
            /\ pc[w] # "sendThrew"
            /\ (pc[w] = "request" /\ idx[w] = 1) =>
                   (trace[w] = <<>> /\ breaker.failCount = 0)
            /\ (pc[w] = "execThrew") =>
                   (idx[w] = 1 /\ trace[w] = <<"fail">> /\ breaker.failCount = 1)
            /\ (pc[w] \in {"request", "fnReturned"} /\ idx[w] = 2) =>
                   (trace[w] = <<"fail">> /\ breaker.failCount = 1)
            /\ (pc[w] = "execReturned") =>
                   /\ idx[w] = 2
                   /\ trace[w] = <<"fail", "ok">>
                   /\ breaker.failCount = 0
                   /\ stats.success >= 1 )

\* C7 witness: the second call of the one worker has returned B's result
\* after A failed; nothing was counted as failed.
C7_Witness ==
    /\ conc = 1
    /\ protocols = <<"h2", "h1.1">>
    /\ "h2" \notin DOMAIN stats.protocols
    /\ "h1.1" \notin failedOver
    /\ pc[1] = "execReturned"
    /\ trace[1] = <<"fail", "ok">>
    /\ stats.success = 2
    /\ stats.failed = 0

\* The key of stats.errors the claim gives each error: its code, else the
\* first 20 characters of its message, else "UNKNOWN".
C8_Signature(e) ==
    CASE e = "reset"   -> <<"E", "C", "O", "N", "N", "R", "E", "S", "E", "T">>
      [] e = "blank"   -> <<"U", "N", "K", "N", "O", "W", "N">>
      [] e = "circuit" -> <<"C", "i", "r", "c", "u", "i", "t", " ", "O", "P",
                            "E", "N", " ", "-", " ", "W", "a", "i", "t", "i">>

\* C8: with protocol list [A], when the attempt over A has failed, the catch
\* block of sendRequest adds 1 to stats.failed and 1 to exactly one entry of
\* stats.errors, the one of the error's signature, leaves stats.success alone
\* and throws the same error to the caller.
C8_SingleProtocolFailure ==
    [][ \A w \in Workers :
            (Len(protocols) = 1 /\ pc[w] = "execThrew" /\ pc'[w] # pc[w]) =>
                LET k == C8_Signature(err[w])
                IN  /\ pc'[w] = "sendThrew"
                    /\ err'[w] = err[w]
                    /\ stats'.failed = stats.failed + 1
                    /\ stats'.success = stats.success
                    /\ stats'.protocols = stats.protocols
                    /\ DOMAIN stats'.errors = DOMAIN stats.errors \cup {k}
                    /\ stats'.errors[k] = Get(stats.errors, k) + 1
                    /\ \A x \in DOMAIN stats.errors \ {k} :
                           stats'.errors[x] = stats.errors[x]
      ]_vars

\* C8 witness: with a one-protocol list, a failed attempt of an error with
\* neither code nor message has been thrown to the worker and counted once,
\* under "UNKNOWN", next to an earlier circuit-open rejection.
C8_Witness ==
    \E w \in Workers :
        /\ Len(protocols) = 1
        /\ pc[w] = "sendThrew"
        /\ err[w] = "blank"
        /\ trace[w] = <<"fail">>
        /\ Get(stats.errors, UNKNOWN) >= 1
        /\ Get(stats.errors, Substring0(CircuitOpenMessage, 20)) >= 1

\* C9: sendRequest throws to its caller only after every protocol of the list
\* has been attempted, in list order.
C9_ThrowsOnlyAfterWholeList ==
    \A w \in Workers :
        pc[w] = "sendThrew" => Len(trace[w]) = Len(protocols)

\* C10: the Clients that are open are those of the attempts in flight and of
\* the probe in flight: a finished attempt or probe leaves none open.
C10_NoOpenClientLeft ==
    openClients = Cardinality({w \in Workers : pc[w] = "request"})
                  + (IF mainPc = "probing" THEN 1 ELSE 0)


(***************************************************************************)
(* Cancellation, the report and the counters.                              *)
(***************************************************************************)
\* The run has been cancelled: an interrupt has cleared isRunning, or the
\* deadline has passed
Cancelled ==
    /\ mainPc \in {"waiting", "reported"}
    /\ ~isRunning \/ now - startTime >= durationMs

\* C11: in the standard mode, once the run has been cancelled (isRunning is
\* false, or the deadline has passed) no worker starts a request attempt: an
\* attempt in flight finishes and the worker exits, without an attempt over
\* the next protocol of the list.
C11_NoAttemptAfterCancel ==
    [][(attack = "none" /\ Cancelled) => \A w \in Workers : ~Invoked(w)]_vars

\* C12: the final summary is produced only when every worker has terminated:
\* when printReport reads the stats no worker has a request in flight or a
\* backoff pending, and no field of the stats is modified at or after that
\* read.
C12_ReportAfterWorkersStopped ==
    [][mainPc' = "reported" =>
           /\ \A w \in Workers : pc'[w] \in {"off", "done"}
           /\ mainPc = "reported" => stats' = stats]_vars

\* No sendRequest call is under way
Quiet == \A w \in Workers : pc[w] \in {"off", "loop", "backoff", "delay", "done"}

\* C13: no update of the stats is lost under concurrent workers: in every
\* state in which all started sendRequest calls have completed, success +
\* failed is the number of completed calls, success is the number of calls
\* that returned and failed the number that threw.
C13_NoLostUpdate ==
    (attack = "none" /\ Quiet) =>
        /\ stats.success + stats.failed = calls
        /\ stats.success = returned
        /\ stats.failed = calls - returned

\* Two workers have completed every call, some of which returned and some of
\* which threw.
C13_Witness ==
    /\ conc = 2
    /\ Quiet
    /\ calls = MaxCalls
    /\ stats.success >= 1
    /\ stats.failed >= 1
    /\ \A w \in Workers : pc[w] = "done"

\* The call of worker w was issued while the breaker refused: its first
\* attempt was refused
IssuedRefused(w) == Len(trace[w]) >= 1 /\ trace[w][1] = "open"
\* ... and so was every attempt of it so far
AllRefused(w) == IssuedRefused(w) /\ \A i \in DOMAIN trace[w] : trace[w][i] = "open"

\* The step is one of the catch block of the sendRequest call of w
CatchStep(w) == pc[w] = "execThrew" /\ (pc'[w] # pc[w] \/ idx'[w] # idx[w])

\* What a step of the sendRequest call of w does when the call is one that the
\* breaker refuses: nothing is invoked; the stats are touched only when the
\* call throws, and then failed and the circuit-open signature each grow by 1
RefusedCallStep(w) ==
    /\ pc'[w] # "request"
    /\ pc'[w] = "sendThrew" =>
           /\ err[w] = "circuit"
           /\ stats' = [stats EXCEPT
                  !.failed = @ + 1,
                  !.errors = Bump(@, Substring0(CircuitOpenMessage, 20))]
    /\ pc'[w] # "sendThrew" => stats' = stats

\* C14 (as claimed): a logical request issued while the breaker is OPEN and
\* before nextAttempt invokes no wrapped operation for any protocol of the
\* list, adds exactly 1 to stats.failed and to the circuit-open signature of
\* the error histogram, and throws the rejection to the worker.
C14_IssuedWhileOpen ==
    [][\A w \in Workers :
           (IssuedRefused(w) /\ CatchStep(w)) => RefusedCallStep(w)]_vars

\* C14 (amended): the same of a logical request every attempt of which is made
\* while the breaker is OPEN and before nextAttempt.
C14_RefusedThroughout ==
    [][\A w \in Workers :
           (AllRefused(w) /\ CatchStep(w) /\ Rejects(breaker, now))
               => RefusedCallStep(w)]_vars

\* A call over two protocols has been refused for both and has thrown, counted
\* once.
C14_Witness ==
    \E w \in Workers :
        /\ pc[w] = "sendThrew"
        /\ trace[w] = <<"open", "open">>
        /\ stats.failed = 1
        /\ Get(stats.errors, Substring0(CircuitOpenMessage, 20)) = 1

\* Every worker has terminated
Terminated == \A w \in Workers : pc[w] \in {"off", "done"}

\* C15: under fairness, with every attempt completing or timing out, every
\* worker terminates after the deadline has passed or the interrupt was
\* raised, a worker in its open-circuit backoff included; and the wait of main
\* for the pool returns once the deadline has passed, or all workers have
\* terminated if that is earlier.
C15_WorkersTerminate ==
    /\ Cancelled ~> Terminated
    /\ (mainPc = "waiting" /\ (Terminated \/ now - startTime >= durationMs))
           ~> mainPc = "reported"

\* Two workers have each made one call, which failed; the second failure
\* opened the breaker, so that its worker went through the backoff; both have
\* terminated and main's wait has returned.
C15_Witness ==
    /\ conc = 2
    /\ calls = 2
    /\ stats.failed = 2
    /\ breaker.state = "OPEN"
    /\ \A w \in Workers : pc[w] = "done"
    /\ mainPc = "reported"


(***************************************************************************)
(* The adaptive delay, the protocol list, the reporter and the stream      *)
(* flood.                                                                  *)
(***************************************************************************)
\* The status codes of a response that tell of rate limiting or blocking
Blocking == {429, 403}

\* C16: with the adaptive delay enabled, a worker whose request completed
\* with a rate-limiting or blocking status code (429, 403) delays before it
\* issues its next request: the delay is triggered by the status code of the
\* response.
C16_DelayOnBlockingStatus ==
    [][\A w \in Workers :
           (adaptiveDelay /\ pc[w] = "execReturned" /\ status[w] \in Blocking
               /\ pc'[w] # pc[w]) => pc'[w] = "delay"]_vars

\* The list each -p argument stands for: its recognised tokens 1.1, 2 and 3,
\* in the order given, or h1.1 alone when there is none
Forced ==
    (<<"1", ".", "1">> :> <<"h1.1">>)
    @@ (<<"x">> :> <<"h1.1">>)
    @@ (<<"2", ",", " ", "1", ".", "1">> :> <<"h2", "h1.1">>)
    @@ (<<"2", ",", "1", ".", "1", ",", "2">> :> <<"h2", "h1.1", "h2">>)
    @@ (<<"1", ".", "1", ",", "x", ",", "3">> :> <<"h1.1", "h3">>)

Elements(ps) == {ps[i] : i \in DOMAIN ps}

C18_IntervalClearedOnce ==
    /\ clears <= 1
    /\ mainPc = "reported" => clears = 1
    /\ ~lateLine

\* C19: in the stream-flood mode, once the interrupt has been raised no worker
\* opens a connection for a new batch: each worker finishes its round and
\* exits, as on the deadline.
C19_NoRoundAfterInterrupt ==
    [][(attack # "none" /\ mainPc = "waiting" /\ ~isRunning) =>
           calls' = calls]_vars

\* C20: if every request attempt succeeds (with whatever status code), then
\* for any concurrency and interleaving stats.failed stays 0 and the breaker
\* stays CLOSED with failCount 0, up to the end of the run, and stats.success
\* is eventually positive.
C20_AllSucceed ==
    /\ [](failedOver = {} =>
              /\ stats.failed = 0
              /\ breaker.state = "CLOSED"
              /\ breaker.failCount = 0)
    /\ <>(attack # "none" \/ failedOver # {} \/ stats.success > 0)

\* The run of two workers has ended: every request got its answer, one of
\* them a blocking status
C20_Witness ==
    /\ conc = 2
    /\ failedOver = {}
    /\ stats.success = MaxCalls
    /\ \E w \in Workers : status[w] = 429
    /\ mainPc = "reported"

(***************************************************************************)
(* The cooldown of the workers and the states of the breaker.              *)
(***************************************************************************)
\* C21: a worker whose dispatch failed while the breaker is OPEN starts no
\* dispatch before the cooldown of 2 s has elapsed; one whose dispatch failed
\* while the breaker is CLOSED or HALF_OPEN retries without the cooldown; and
\* execute itself never sleeps.
C21_CooldownOnlyWhenOpen ==
    [][\A w \in Workers :
           /\ (pc[w] = "sendThrew" /\ pc'[w] # "sendThrew") =>
                  IF breaker.state = "OPEN"
                  THEN pc'[w] = "backoff" /\ wake'[w] = now + Cooldown
                  ELSE pc'[w] = "loop"
           /\ pc[w] = "backoff" =>
                  /\ ~Started(w)
                  /\ \/ (pc'[w] = "backoff" /\ wake'[w] = wake[w])
                     \/ (pc'[w] = "loop" /\ now >= wake[w])
           /\ (Started(w) \/ Failed(w) \/ Succeeded(w)) =>
                  /\ pc'[w] \notin {"backoff", "delay"}
                  /\ wake' = wake]_vars

\* Of two workers, one has just caught a failure with the breaker OPEN, at a
\* time when an earlier cooldown can have elapsed, and waits for now +
\* Cooldown; three calls or more have failed.
C21_Witness ==
    /\ conc = 2
    /\ breaker.state = "OPEN"
    /\ now >= Cooldown
    /\ \E w \in Workers : pc[w] = "backoff" /\ wake[w] = now + Cooldown
    /\ stats.failed >= 3

\* C22: under any interleaving of the workers that share the breaker, the
\* state changes only from CLOSED to OPEN (a failure that brings failCount to
\* threshold or more), from OPEN to HALF_OPEN (a call at or after
\* nextAttempt), from HALF_OPEN to CLOSED (successCount reaching
\* halfOpenRequests) and from HALF_OPEN to OPEN (a failure); never from CLOSED
\* to HALF_OPEN or from OPEN to CLOSED; and nextAttempt is written only in a
\* step that leaves the state OPEN.
C22_AllowedTransitions ==
    [][ /\ breaker'.state # breaker.state =>
               \/ /\ breaker.state = "CLOSED" /\ breaker'.state = "OPEN"
                  /\ breaker'.failCount >= threshold
                  /\ \E w \in Workers : Failed(w)
               \/ /\ breaker.state = "OPEN" /\ breaker'.state = "HALF_OPEN"
                  /\ now >= breaker.nextAttempt
                  /\ \E w \in Workers : Invoked(w)
               \/ /\ breaker.state = "HALF_OPEN" /\ breaker'.state = "CLOSED"
                  /\ breaker.successCount + 1 >= halfOpenRequests
                  /\ \E w \in Workers : Succeeded(w)
               \/ /\ breaker.state = "HALF_OPEN" /\ breaker'.state = "OPEN"
                  /\ \E w \in Workers : Failed(w)
        /\ breaker'.nextAttempt # breaker.nextAttempt => breaker'.state = "OPEN"
      ]_vars

\* Two workers share the breaker, which has opened, gone HALF_OPEN and opened
\* again, while the request of a worker admitted in HALF_OPEN is in flight.
C22_Witness ==
    /\ conc = 2
    /\ lastChange = <<"HALF_OPEN", "OPEN">>
    /\ breaker.state = "OPEN"
    /\ \E w \in Workers : pc[w] = "request"


\* Some worker calls breaker.execute in this step
Dispatching == \E w \in Workers : Started(w)

\* A wrapped operation fails in this step
OperationFails == \E w \in Workers : Failed(w)

\* C23: in a run in which workers keep dispatching and in which, from some
\* point on, no wrapped operation fails, a breaker that is OPEN becomes
\* HALF_OPEN, and the breaker is in the end CLOSED for good: it stays neither
\* OPEN nor HALF_OPEN for ever.
C23_Recovery ==
    ([]<><<Dispatching>>_vars /\ <>[][~OperationFails]_vars) =>
        /\ (breaker.state = "OPEN") ~> (breaker.state = "HALF_OPEN")
        /\ <>[](breaker.state = "CLOSED")

\* In a run that does not end, with two workers, the breaker has gone from
\* OPEN to HALF_OPEN and has just been closed by the successes of the calls
\* admitted since; a worker has dispatched again.
C23_Witness ==
    /\ endless
    /\ conc = 2
    /\ lastChange = <<"HALF_OPEN", "CLOSED">>
    /\ breaker.state = "CLOSED"
    /\ \E w \in Workers : pc[w] = "request"

\* C24: whenever the breaker is CLOSED its failCount is at least 0 and below
\* threshold, and whenever it is HALF_OPEN its successCount is at least 0 and
\* below halfOpenRequests.
C24_CounterRanges ==
    /\ breaker.state = "CLOSED" =>
           (0 <= breaker.failCount /\ breaker.failCount < threshold)
    /\ breaker.state = "HALF_OPEN" =>
           (0 <= breaker.successCount
            /\ breaker.successCount < halfOpenRequests)

\* Two workers: the breaker is HALF_OPEN, one success short of closing, with
\* the failCount that opened it
C24_Witness ==
    /\ conc = 2
    /\ breaker.state = "HALF_OPEN"
    /\ breaker.successCount = halfOpenRequests - 1
    /\ breaker.failCount >= threshold
    /\ periodSuccesses = halfOpenRequests - 1

\* C25: the success of an operation that was invoked before the breaker last
\* opened does not count toward recovery: completing while the breaker is
\* HALF_OPEN it leaves successCount and the state alone, and completing while
\* the breaker is OPEN it leaves failCount and nextAttempt alone.
C25_StaleSuccessIgnored ==
    [][\A w \in Workers :
           (Succeeded(w) /\ stale[w]) =>
               /\ breaker.state = "HALF_OPEN" =>
                      /\ breaker'.successCount = breaker.successCount
                      /\ breaker'.state = "HALF_OPEN"
               /\ breaker.state = "OPEN" =>
                      /\ breaker'.failCount = breaker.failCount
                      /\ breaker'.nextAttempt = breaker.nextAttempt]_vars
=============================================================================
